---------------------------- MODULE Spec2Model ----------------------------
(***************************************************************************)
(* State machine of the PintOS threading core (src/threads/thread.c):      *)
(* boot, the two schedulers, the timer tick and the thread lifecycle.      *)
(*                                                                         *)
(* One action is one interrupts-off region or one statement group that a   *)
(* timer interrupt cannot split further in the model.  schedule() is split *)
(* in two: the switch (status already changed, next thread chosen, CPU on  *)
(* the next thread's stack) and thread_schedule_tail().                    *)
(*                                                                         *)
(* A thread is identified by its tid (1 = main, then in allocation order). *)
(* Lists are sequences of tids.  lib/kernel/list.c, threads/synch.c and    *)
(* lib/fp_arithmetic.h are not part of the sources at hand; what the model *)
(* needs of them follows the specification.                                *)
(***************************************************************************)
EXTENDS Integers, Sequences, FiniteSets, TLC

(* ------------------------------ bounds -------------------------------- *)
\* highest tid the model allocates (main, idle, mlfqs_thread, then workers)
MaxTid == 5
\* timer interrupts delivered in one behaviour
MaxTicks == 4
\* timer_ticks() is BootSlack ticks short of a multiple of TIMER_FREQ when
\* the model starts (devices/timer.c owns the counter)
BootSlack == 4
\* locks the threads contend for
NumLocks == 1
\* locks of the runs that start with threads already waiting on a lock
ChainLocks == 2
\* calls (thread_create, thread_yield, thread_set_priority, thread_set_nice,
\* thread_exit, lock_acquire, lock_release) the threads make in one behaviour
MaxCalls == 4
\* largest whole number of ticks in a recent_cpu the recomputation runs start with
MaxCpu == 256
\* largest load_avg, in sixtieths, the recomputation runs start with
MaxLoad == 150
\* largest load_avg, in units of 1/16384, the idle runs start with
MaxIdleLoad == 3

(* ------------------------- program constants -------------------------- *)
PRI_MIN == 0
PRI_DEFAULT == 31
PRI_MAX == 63
NICE_MIN == -20
NICE_INIT == 0
NICE_MAX == 20
TIME_SLICE == 4
TIMER_FREQ == 100
\* 17.14 fixed point: 1 << 14
FP_F == 16384
EXIT_STATUS_FAIL == -1
TID_ERROR == -1
NULL == 0
MAIN == 1

\* the thread table: the tids thread_create allocates in the model and one
\* more, which only exists in the runs that start with waiting threads
Tids == 1..(MaxTid + 1)
Locks == 1..NumLocks
\* semaphore 0 is idle_started, 1..NumLocks are the locks', and thread t's
\* child_process_lock follows them
Semas == 0..(NumLocks + MaxTid + 1)
child_process_lock(t) == NumLocks + t
IDLE_STARTED == 0
\* arguments the model passes to thread_create, thread_set_priority and
\* thread_set_nice
CreatePriorities == {PRI_DEFAULT, 40}
SetPriorities == {10, 64}
SetNices == {21}
\* priorities of the threads that wait on a lock when LockInit starts
WaitPriorities == {15, 20, 35}

(* ------------------------------ state --------------------------------- *)
VARIABLES
  thread_mlfqs,              \* bool thread_mlfqs
  status,                    \* t->status; "NONE": page not allocated, "FREED": page freed
  priority,                  \* t->priority (effective)
  orig_priority,             \* t->orig_priority (base)
  nice,                      \* t->nice
  recent_cpu,                \* t->recent_cpu (17.14 fixed point)
  parent,                    \* t->parent
  process_children,          \* t->process_children: records [tid, exit_status, did_execute]
  pc,                        \* where each thread continues when it next runs
  newt,                      \* thread_create's local t of each creator
  all_list,                  \* all_list
  ready_list,                \* ready_list
  mlfqs_lists,               \* mlfqs_lists[PRI_MIN..PRI_MAX], laid end to end from PRI_MAX down
  cur,                       \* running_thread(): the thread whose stack the CPU is on
  idle_thread,               \* idle_thread
  mlfqs_thread,              \* mlfqs_thread
  next_tid,                  \* allocate_tid's static next_tid
  thread_ticks,              \* thread_ticks
  ticks,                     \* timer_ticks()
  nticks,                    \* timer interrupts delivered so far (bounds the model)
  is_recent_cpu_update,      \* is_recent_cpu_update
  is_mlfqs_priority_update,  \* is_mlfqs_priority_update
  load_avg,                  \* load_avg (17.14 fixed point)
  intr_level,                \* intr_get_level()
  sched,                     \* schedule() in progress: the switch is done, the tail is not
  panic,                     \* "" or the assertion / fault that stopped the kernel
  last_bucket,               \* index of the bucket t->mlfqselem is (was last) linked into, -1: never
  donors_list,               \* t->donors_list
  wait_lock,                 \* t->wait_lock
  thread_lock,               \* t->thread_lock
  lock_holder,               \* lock->holder
  sema_value,                \* sema->value; semaphore 0 is idle_started, l >= 1 is lock l's
  sema_waiters,              \* sema->waiters
  fifo,                      \* history: the threads of the ready structure in arrival order
  ncalls,                    \* history: calls the threads have made so far
  ret,                       \* what the thread's last thread_create returned, NULL: none yet
  tid_wait,                  \* t->tid_wait
  exit_status,               \* t->exit_status
  wait_status                \* what the thread's last process_wait returned

thrVars == <<priority, orig_priority, nice, recent_cpu, parent, process_children>>
listVars == <<all_list, ready_list, mlfqs_lists>>
globVars == <<idle_thread, mlfqs_thread, next_tid>>
synchVars == <<donors_list, wait_lock, thread_lock, lock_holder, sema_value, sema_waiters>>
procVars == <<tid_wait, exit_status, wait_status>>
tickVars == <<thread_ticks, ticks, nticks, is_recent_cpu_update, is_mlfqs_priority_update>>
vars == <<thread_mlfqs, status, priority, orig_priority, nice, recent_cpu, parent,
          process_children, pc, newt, all_list, ready_list, mlfqs_lists, cur,
          idle_thread, mlfqs_thread, next_tid, thread_ticks, ticks, nticks,
          is_recent_cpu_update, is_mlfqs_priority_update, load_avg, intr_level,
          sched, panic, last_bucket, donors_list, wait_lock, thread_lock,
          lock_holder, sema_value, sema_waiters, fifo, ncalls, ret,
          tid_wait, exit_status, wait_status>>

(* ------------------------------ helpers ------------------------------- *)
InSeq(s, t) == \E i \in 1..Len(s) : s[i] = t

Remove(s, t) == SelectSeq(s, LAMBDA x : x # t)

Count(s, t) == Cardinality({i \in 1..Len(s) : s[i] = t})

IndexOf(s, t) == CHOOSE i \in 1..Len(s) : s[i] = t

\* C integer division truncates toward zero
CDiv(a, b) ==
  IF (a >= 0) = (b > 0) THEN (IF a >= 0 THEN a ELSE -a) \div (IF b > 0 THEN b ELSE -b)
  ELSE -((IF a >= 0 THEN a ELSE -a) \div (IF b > 0 THEN b ELSE -b))

CLAMP(x, low, high) == IF x > high THEN high ELSE IF x < low THEN low ELSE x

\* lib/fp_arithmetic.h
INT_ADD(x, n) == x + n * FP_F
INT_SUB(n, x) == n * FP_F - x
INT_MULTIPLY(x, n) == x * n
INT_DIVIDE(x, n) == CDiv(x, n)
MULTIPLY(x, y) == CDiv(x * y, FP_F)
DIVIDE(x, y) == CDiv(x * FP_F, y)
ROUND_ZERO(x) == CDiv(x, FP_F)

\* list_insert_ordered (&ready_list, &t->elem, thread_compare_priorities):
\* t goes before the first element whose priority is strictly lower
thread_compare_priorities(pr, a, b) == pr[a] > pr[b]

InsertOrdered(rl, t, pr) ==
  LET before == {i \in 1..Len(rl) : thread_compare_priorities(pr, t, rl[i])}
      k == IF before = {} THEN Len(rl) + 1
           ELSE CHOOSE i \in before : \A j \in before : i <= j
  IN SubSeq(rl, 1, k - 1) \o <<t>> \o SubSeq(rl, k, Len(rl))

\* The ready structure is a record rs: rl is ready_list; ml is the 64
\* buckets of mlfqs_lists laid end to end, bucket PRI_MAX first, and lb[t]
\* the index of the bucket t->mlfqselem is linked into (was last linked
\* into, when t is not in ml).
RS == [rl |-> ready_list, ml |-> mlfqs_lists, lb |-> last_bucket]

\* mlfqs_lists[i]
Bucket(rs, i) == SelectSeq(rs.ml, LAMBDA x : rs.lb[x] = i)

\* list_push_back (&mlfqs_lists[idx], &t->mlfqselem); an index outside the
\* array writes outside it and links t into no bucket
BucketPush(rs, idx, t) ==
  IF idx \in PRI_MIN..PRI_MAX
  THEN LET lower == {i \in 1..Len(rs.ml) : rs.lb[rs.ml[i]] < idx}
           k == IF lower = {} THEN Len(rs.ml) + 1
                ELSE CHOOSE i \in lower : \A j \in lower : i <= j
       IN [rs EXCEPT !.ml = SubSeq(rs.ml, 1, k - 1) \o <<t>> \o SubSeq(rs.ml, k, Len(rs.ml)),
                     !.lb = [rs.lb EXCEPT ![t] = idx]]
  ELSE rs

\* list_remove (&t->mlfqselem) of a linked element
BucketRemove(rs, t) == [rs EXCEPT !.ml = Remove(rs.ml, t)]

InBuckets(rs, t) == InSeq(rs.ml, t)

InStructure(rs, t) == InSeq(rs.rl, t) \/ InSeq(rs.ml, t)

thread_mlfqs_get_highest_priority(rs) ==
  IF rs.ml = <<>> THEN -1
  ELSE CHOOSE i \in {rs.lb[rs.ml[k]] : k \in 1..Len(rs.ml)} :
         \A k \in 1..Len(rs.ml) : rs.lb[rs.ml[k]] <= i

next_thread_to_run(rs, idl) ==
  IF ~thread_mlfqs
  THEN IF rs.rl = <<>>
       THEN [next |-> idl, rs |-> rs, empty |-> TRUE]
       ELSE [next |-> Head(rs.rl), rs |-> [rs EXCEPT !.rl = Tail(rs.rl)], empty |-> FALSE]
  ELSE LET highest_priority == thread_mlfqs_get_highest_priority(rs)
       IN IF highest_priority # -1
          THEN LET t == Head(Bucket(rs, highest_priority))
               IN [next |-> t, rs |-> BucketRemove(rs, t), empty |-> FALSE]
          ELSE [next |-> idl, rs |-> rs, empty |-> TRUE]

NoSched == [pending |-> FALSE, prev |-> NULL, from_empty |-> FALSE, fifo_ok |-> TRUE]

\* the arrival history after the threads of arr joined the ready structure
\* rs and thread gone left it
Arrivals(rs, arr, gone) ==
  SelectSeq(fifo \o arr, LAMBDA x : x # gone /\ InStructure(rs, x))

\* the caller's ready structure becomes the state's
SetRS(rs) ==
  /\ ready_list' = rs.rl
  /\ mlfqs_lists' = rs.ml
  /\ last_bucket' = rs.lb

\* schedule () up to and including switch_threads: st and rs are the
\* statuses and the ready structure the caller leaves, pr the priorities;
\* n is what next_thread_to_run () returns, computed once
schedule(st, pr, rs, arr, idl) ==
  \E n \in {next_thread_to_run(r, idl) : r \in {rs}} :
  \E f \in {Arrivals(rs, arr, NULL)} :
     IF n.next = NULL
     THEN /\ panic' = "schedule: is_thread (next)"
          /\ status' = st
          /\ SetRS(n.rs)
          /\ fifo' = f
          /\ intr_level' = "OFF"
          /\ UNCHANGED <<cur, sched>>
     ELSE /\ status' = st
          /\ SetRS(n.rs)
          /\ cur' = n.next
          /\ sched' = [pending |-> TRUE,
                       prev |-> IF n.next # cur THEN cur ELSE NULL,
                       from_empty |-> n.empty,
                       fifo_ok |-> \/ ~InSeq(f, n.next)
                                   \/ \A i \in 1..(IndexOf(f, n.next) - 1) :
                                        pr[f[i]] # pr[n.next]]
          /\ intr_level' = "OFF"
          /\ fifo' = Arrivals(n.rs, arr, n.next)
          /\ UNCHANGED panic

\* the caller goes on without schedule (): interrupts back at lvl
proceed(st, rs, arr, lvl) ==
  /\ status' = st
  /\ SetRS(rs)
  /\ fifo' = Arrivals(rs, arr, NULL)
  /\ intr_level' = lvl
  /\ UNCHANGED <<cur, sched, panic>>

\* thread_unblock (t): the ready structure with t inserted
thread_unblock(rs, t, pr) ==
  IF ~thread_mlfqs
  THEN [rs EXCEPT !.rl = InsertOrdered(rs.rl, t, pr)]
  ELSE BucketPush(rs, pr[t], t)

\* thread_yield () that leaves the caller's status alone
thread_yield_keeps_running(st, pr, rs, arr, idl) ==
  IF cur # idl
  THEN schedule(st, pr, thread_unblock(rs, cur, pr), arr \o <<cur>>, idl)
  ELSE schedule(st, pr, rs, arr, idl)

\* thread_yield (): the current thread joins the ready structure unless it
\* is the idle thread, becomes READY, schedule ()
thread_yield(st, pr, rs, arr, idl) ==
  IF cur # idl
  THEN schedule([st EXCEPT ![cur] = "READY"], pr, thread_unblock(rs, cur, pr),
                arr \o <<cur>>, idl)
  ELSE schedule([st EXCEPT ![cur] = "READY"], pr, rs, arr, idl)

\* some thread of the ready structure outranks the current thread
HigherReady(rs, pr) ==
  \E t \in Tids : InStructure(rs, t) /\ pr[t] > pr[cur]

Running(t) ==
  /\ panic = ""
  /\ ~sched.pending
  /\ cur = t

(* ------------------------------- Init --------------------------------- *)
\* thread_init (): the running code becomes thread "main"
Init ==
  /\ thread_mlfqs \in BOOLEAN
  /\ status = [t \in Tids |-> IF t = MAIN THEN "RUNNING" ELSE "NONE"]
  /\ priority = [t \in Tids |-> IF t = MAIN THEN PRI_DEFAULT ELSE 0]
  /\ orig_priority = [t \in Tids |-> IF t = MAIN THEN PRI_DEFAULT ELSE 0]
  /\ nice = [t \in Tids |-> NICE_INIT]
  /\ recent_cpu = [t \in Tids |-> 0]
  /\ parent = [t \in Tids |-> IF t = MAIN THEN MAIN ELSE NULL]
  /\ process_children = [t \in Tids |-> <<>>]
  /\ pc = [t \in Tids |-> IF t = MAIN THEN "start_idle" ELSE "none"]
  /\ newt = [t \in Tids |-> NULL]
  /\ all_list = <<MAIN>>
  /\ ready_list = <<>>
  /\ mlfqs_lists = <<>>
  /\ cur = MAIN
  /\ idle_thread = NULL
  /\ mlfqs_thread = NULL
  /\ next_tid = 2
  /\ thread_ticks = 0
  /\ ticks = TIMER_FREQ - BootSlack
  /\ nticks = 0
  /\ is_recent_cpu_update = FALSE
  /\ is_mlfqs_priority_update = FALSE
  /\ load_avg = 0
  /\ intr_level = "OFF"
  /\ sched = NoSched
  /\ panic = ""
  /\ last_bucket = [t \in Tids |-> -1]
  /\ donors_list = [t \in Tids |-> <<>>]
  /\ wait_lock = [t \in Tids |-> NULL]
  /\ thread_lock = [t \in Tids |-> NULL]
  /\ lock_holder = [l \in Locks |-> NULL]
  /\ sema_value = [s \in Semas |-> IF s \in 1..NumLocks THEN 1 ELSE 0]
  /\ sema_waiters = [s \in Semas |-> <<>>]
  /\ fifo = <<>>
  /\ ncalls = 0
  /\ tid_wait = [t \in Tids |-> 0]
  /\ exit_status = [t \in Tids |-> EXIT_STATUS_FAIL]
  /\ wait_status = [t \in Tids |-> NULL]
  /\ ret = [t \in Tids |-> NULL]

(* ------------------------- thread_start (boot) ------------------------ *)
\* init_thread (t, name, p) for a thread made by the current thread: the
\* new values of the per-thread fields and of all_list
init_priority(t, p) == [priority EXCEPT ![t] = p]

init_nice(t) == [nice EXCEPT ![t] = nice[cur]]

init_recent_cpu(t) == [recent_cpu EXCEPT ![t] = recent_cpu[cur]]

\* thread_create's child record, pushed on the creator's process_children
child_record(t) == [tid |-> t, exit_status |-> EXIT_STATUS_FAIL, did_execute |-> FALSE]

init_thread(t, p) ==
  /\ priority' = init_priority(t, p)
  /\ orig_priority' = [orig_priority EXCEPT ![t] = p]
  /\ nice' = init_nice(t)
  /\ recent_cpu' = init_recent_cpu(t)
  /\ parent' = [parent EXCEPT ![t] = cur]
  /\ all_list' = Append(all_list, t)
  /\ next_tid' = next_tid + 1
  /\ process_children' = [process_children EXCEPT ![cur] = Append(@, child_record(t))]

\* thread_start (): thread_create ("idle", PRI_MIN, idle, &idle_started),
\* interrupts off throughout
StartCreateIdle ==
  /\ UNCHANGED procVars
  /\ UNCHANGED ncalls
  /\ UNCHANGED ret
  /\ Running(MAIN) /\ pc[MAIN] = "start_idle"
  /\ LET t == next_tid
         pr == init_priority(t, PRI_MIN)
     IN /\ init_thread(t, PRI_MIN)
        /\ pc' = [pc EXCEPT ![MAIN] = "start_mlfqs", ![t] = "idle_entry"]
        /\ IF pr[t] > pr[cur] /\ t # idle_thread
           THEN thread_yield([status EXCEPT ![t] = "READY"], pr,
                             thread_unblock(RS, t, pr),
                             <<t>>, idle_thread)
           ELSE proceed([status EXCEPT ![t] = "READY"],
                        thread_unblock(RS, t, pr),
                        <<t>>, "OFF")
  /\ UNCHANGED <<thread_mlfqs, newt, idle_thread, mlfqs_thread, tickVars, load_avg, synchVars>>

\* thread_start (): thread_create ("mlfqs_thread", PRI_MAX, mlfqs_scheduler, NULL)
StartCreateMlfqs ==
  /\ UNCHANGED procVars
  /\ UNCHANGED ncalls
  /\ UNCHANGED ret
  /\ Running(MAIN) /\ pc[MAIN] = "start_mlfqs"
  /\ LET t == next_tid
         pr == init_priority(t, PRI_MAX)
     IN /\ init_thread(t, PRI_MAX)
        /\ pc' = [pc EXCEPT ![MAIN] = "start_wait", ![t] = "mlfqs_entry"]
        /\ IF pr[t] > pr[cur] /\ t # idle_thread
           THEN thread_yield([status EXCEPT ![t] = "READY"], pr,
                             thread_unblock(RS, t, pr),
                             <<t>>, idle_thread)
           ELSE proceed([status EXCEPT ![t] = "READY"],
                        thread_unblock(RS, t, pr),
                        <<t>>, "OFF")
  /\ UNCHANGED <<thread_mlfqs, newt, idle_thread, mlfqs_thread, tickVars, load_avg, synchVars>>

\* sema_down (sema) by the current thread when sema->value is 0: it joins
\* the waiters and thread_block ()s
sema_down_block(s, nextpc) ==
  /\ sema_waiters' = [sema_waiters EXCEPT ![s] = Append(@, cur)]
  /\ pc' = [pc EXCEPT ![cur] = nextpc]
  /\ schedule([status EXCEPT ![cur] = "BLOCKED"], priority, RS,
              <<>>, idle_thread)

\* thread_start (): intr_enable (); sema_down (&idle_started)
StartWaitIdle ==
  /\ UNCHANGED procVars
  /\ UNCHANGED ncalls
  /\ UNCHANGED ret
  /\ Running(MAIN) /\ pc[MAIN] = "start_wait"
  /\ IF sema_value[IDLE_STARTED] = 0
     THEN /\ sema_down_block(IDLE_STARTED, "sema_wait_idle")
          /\ UNCHANGED sema_value
     ELSE /\ sema_value' = [sema_value EXCEPT ![IDLE_STARTED] = @ - 1]
          /\ pc' = [pc EXCEPT ![MAIN] = "run"]
          /\ proceed(status, RS, <<>>, "ON")
          /\ UNCHANGED sema_waiters
  /\ UNCHANGED <<thread_mlfqs, thrVars, newt, all_list, globVars, tickVars, load_avg,
                 donors_list, wait_lock, thread_lock, lock_holder>>

(* --------------------------- schedule tail ---------------------------- *)
\* interrupts stay off after the tail when the resumed thread is inside
\* sema_down's loop or inside thread_start before intr_enable ()
ResumeLevel(t) ==
  IF pc[t] \in {"sema_wait_idle", "sema_wait_lock", "start_wait"} THEN "OFF" ELSE "ON"

\* thread_schedule_tail that leaves out "prev != initial_thread"
thread_schedule_tail_frees_initial ==
  /\ UNCHANGED procVars
  /\ UNCHANGED ncalls
  /\ UNCHANGED ret
  /\ panic = ""
  /\ sched.pending
  /\ status' = [t \in Tids |->
                  IF t = cur THEN "RUNNING"
                  ELSE IF t = sched.prev /\ status[t] = "DYING" THEN "FREED"
                  ELSE status[t]]
  /\ thread_ticks' = 0
  /\ sched' = NoSched
  /\ intr_level' = ResumeLevel(cur)
  /\ UNCHANGED <<thread_mlfqs, thrVars, pc, newt, listVars, cur, globVars, ticks, nticks,
                 is_recent_cpu_update, is_mlfqs_priority_update, load_avg, panic,
                 last_bucket, synchVars, fifo>>

\* thread_schedule_tail that leaves out "cur->status = THREAD_RUNNING"
thread_schedule_tail_no_running ==
  /\ UNCHANGED procVars
  /\ UNCHANGED ncalls
  /\ UNCHANGED ret
  /\ panic = ""
  /\ sched.pending
  /\ status' = [t \in Tids |->
                  IF t = sched.prev /\ status[t] = "DYING" /\ t # MAIN THEN "FREED"
                  ELSE status[t]]
  /\ thread_ticks' = 0
  /\ sched' = NoSched
  /\ intr_level' = ResumeLevel(cur)
  /\ UNCHANGED <<thread_mlfqs, thrVars, pc, newt, listVars, cur, globVars, ticks, nticks,
                 is_recent_cpu_update, is_mlfqs_priority_update, load_avg, panic,
                 last_bucket, synchVars, fifo>>

\* thread_schedule_tail (prev), then the return into the resumed thread
thread_schedule_tail ==
  /\ UNCHANGED procVars
  /\ UNCHANGED ncalls
  /\ UNCHANGED ret
  /\ panic = ""
  /\ sched.pending
  /\ status' = [t \in Tids |->
                  IF t = cur THEN "RUNNING"
                  ELSE IF t = sched.prev /\ status[t] = "DYING" /\ t # MAIN THEN "FREED"
                  ELSE status[t]]
  /\ thread_ticks' = 0
  /\ sched' = NoSched
  /\ intr_level' = ResumeLevel(cur)
  /\ UNCHANGED <<thread_mlfqs, thrVars, pc, newt, listVars, cur, globVars, ticks, nticks,
                 is_recent_cpu_update, is_mlfqs_priority_update, load_avg, panic,
                 last_bucket, synchVars, fifo>>

(* ------------------------------- synch -------------------------------- *)
\* sema_up that wakes the waiter that has waited longest
MaxWaiter_fifo(w, pr) == w[1]

\* the waiter sema_up wakes: the first of those with the highest priority
MaxWaiter(w, pr) ==
  w[CHOOSE i \in 1..Len(w) :
      /\ \A j \in 1..Len(w) : pr[w[j]] <= pr[w[i]]
      /\ \A j \in 1..(i - 1) : pr[w[j]] < pr[w[i]]]

\* sema_up (s) by the current thread, priorities pr: wake the
\* highest-priority waiter, increment, yield if a higher-priority thread is
\* now ready
sema_up(s, pr, idl) ==
  LET w == sema_waiters[s]
      t == IF w = <<>> THEN NULL ELSE MaxWaiter(w, pr)
      st == IF t = NULL THEN status ELSE [status EXCEPT ![t] = "READY"]
      rs == IF t = NULL THEN RS ELSE thread_unblock(RS, t, pr)
      arr == IF t = NULL THEN <<>> ELSE <<t>>
  IN /\ sema_waiters' = [sema_waiters EXCEPT ![s] = IF t = NULL THEN @ ELSE Remove(@, t)]
     /\ sema_value' = [sema_value EXCEPT ![s] = @ + 1]
     /\ IF HigherReady(rs, pr)
        THEN thread_yield(st, pr, rs, arr, idl)
        ELSE proceed(st, rs, arr, "ON")

\* sema_down's loop after thread_block () returned: take the semaphore or
\* wait again
SemaDownResume ==
  /\ UNCHANGED procVars
  /\ UNCHANGED ncalls
  /\ UNCHANGED ret
  /\ panic = "" /\ ~sched.pending
  /\ pc[cur] \in {"sema_wait_idle", "sema_wait_lock"}
  /\ LET s == IF pc[cur] = "sema_wait_idle" THEN IDLE_STARTED ELSE wait_lock[cur]
     IN IF sema_value[s] = 0
        THEN /\ sema_down_block(s, pc[cur])
             /\ UNCHANGED <<sema_value, wait_lock, thread_lock, lock_holder>>
        ELSE /\ sema_value' = [sema_value EXCEPT ![s] = @ - 1]
             /\ pc' = [pc EXCEPT ![cur] = "run"]
             /\ proceed(status, RS, <<>>, "ON")
             /\ IF s = IDLE_STARTED
                THEN UNCHANGED <<wait_lock, thread_lock, lock_holder>>
                ELSE /\ wait_lock' = [wait_lock EXCEPT ![cur] = NULL]
                     /\ thread_lock' = [thread_lock EXCEPT ![cur] = s]
                     /\ lock_holder' = [lock_holder EXCEPT ![s] = cur]
             /\ UNCHANGED sema_waiters
  /\ UNCHANGED <<thread_mlfqs, thrVars, newt, all_list, globVars, tickVars, load_avg,
                 donors_list>>

(* ----------------------------- idle thread ---------------------------- *)
\* idle (): idle_thread = thread_current (); sema_up (idle_started)
IdleEntry ==
  /\ UNCHANGED procVars
  /\ UNCHANGED ncalls
  /\ UNCHANGED ret
  /\ panic = "" /\ ~sched.pending
  /\ pc[cur] = "idle_entry"
  /\ idle_thread' = cur
  /\ pc' = [pc EXCEPT ![cur] = "idle_loop"]
  /\ sema_up(IDLE_STARTED, priority, cur)
  /\ UNCHANGED <<thread_mlfqs, thrVars, newt, all_list, mlfqs_thread, next_tid, tickVars,
                 load_avg, donors_list, wait_lock, thread_lock, lock_holder>>

\* idle (): intr_disable (); thread_block (); and, once scheduled again,
\* sti; hlt
IdleBlock ==
  /\ UNCHANGED procVars
  /\ UNCHANGED ncalls
  /\ UNCHANGED ret
  /\ panic = "" /\ ~sched.pending
  /\ pc[cur] = "idle_loop"
  /\ pc' = [pc EXCEPT ![cur] = "idle_hlt"]
  /\ schedule([status EXCEPT ![cur] = "BLOCKED"], priority, RS,
              <<>>, idle_thread)
  /\ UNCHANGED <<thread_mlfqs, thrVars, newt, all_list, globVars, tickVars, load_avg,
                 synchVars>>


(* ---------------------------- MLFQS engine ---------------------------- *)
\* the tid tests of thread_update_load_avg, thread_update_recent_cpu and
\* thread_update_priority; wakeup_thread belongs to devices/timer.c and
\* stays blocked throughout, so it is no thread of the model
Excluded(t) == t = mlfqs_thread \/ t = idle_thread

\* thread_update_load_avg that leaves out the tid tests
ready_threads_no_tid_test ==
  Cardinality({i \in 1..Len(all_list) : status[all_list[i]] = "READY"}) + 1

\* thread_update_load_avg (): the READY threads of all_list that are not
\* excluded, plus the current thread unless it is excluded
ready_threads ==
  Cardinality({i \in 1..Len(all_list) :
                 status[all_list[i]] = "READY" /\ ~Excluded(all_list[i])})
  + (IF Excluded(cur) THEN 0 ELSE 1)

\* thread_update_load_avg that multiplies by 60, not 59
thread_update_load_avg_no_decay ==
  INT_DIVIDE(INT_ADD(INT_MULTIPLY(load_avg, 60), ready_threads), 60)

thread_update_load_avg == INT_DIVIDE(INT_ADD(INT_MULTIPLY(load_avg, 59), ready_threads), 60)

\* thread_update_recent_cpu (): the new recent_cpu of every thread
thread_update_recent_cpu ==
  [t \in Tids |->
     IF InSeq(all_list, t) /\ ~Excluded(t)
     THEN LET temp1 == INT_MULTIPLY(load_avg, 2)
              temp2 == DIVIDE(temp1, INT_ADD(temp1, 1))
              temp3 == MULTIPLY(temp2, recent_cpu[t])
          IN INT_ADD(temp3, nice[t])
     ELSE recent_cpu[t]]

\* thread_update_priority that subtracts nice once, not twice
mlfqs_priority_single_nice(rc, ni) ==
  LET temp1 == INT_ADD(INT_DIVIDE(rc, 4), ni)
      temp2 == ROUND_ZERO(INT_SUB(PRI_MAX, temp1))
  IN CLAMP(temp2, PRI_MIN, PRI_MAX)

\* the priority thread_update_priority computes for t
mlfqs_priority(rc, ni) ==
  LET temp1 == INT_ADD(INT_DIVIDE(rc, 4), 2 * ni)
      temp2 == ROUND_ZERO(INT_SUB(PRI_MAX, temp1))
  IN CLAMP(temp2, PRI_MIN, PRI_MAX)

\* thread_update_priority (t) on priorities a.pr and ready structure a.rs.
\* A READY thread is unlinked and appended to the bucket of its priority;
\* when its mlfqselem is in no bucket the list_remove is undefined: it leaves
\* the buckets alone or (wipe) cuts off the bucket the element was last in.
thread_update_priority(a, t, ni, wipe) ==
  LET pr1 == IF Excluded(t) THEN a.pr
             ELSE [a.pr EXCEPT ![t] = mlfqs_priority(recent_cpu[t], ni[t])]
      linked == InBuckets(a.rs, t)
      rs0 == IF linked THEN BucketRemove(a.rs, t)
             ELSE IF wipe
             THEN [a.rs EXCEPT !.ml = SelectSeq(a.rs.ml, LAMBDA x : a.rs.lb[x] # a.rs.lb[t])]
             ELSE a.rs
  IN IF status[t] = "READY"
     THEN [pr |-> pr1, rs |-> BucketPush(rs0, pr1[t], t), ub |-> a.ub \/ ~linked]
     ELSE [pr |-> pr1, rs |-> a.rs, ub |-> a.ub]

\* thread_update_priorities (): thread_update_priority over all_list from
\* position i on
RECURSIVE thread_update_priorities(_, _, _)
thread_update_priorities(a, i, wipe) ==
  IF i > Len(all_list) THEN a
  ELSE CHOOSE r \in {thread_update_priorities(b, i + 1, wipe) :
                       b \in {thread_update_priority(a, all_list[i], nice, wipe)}} : TRUE

\* mlfqs_scheduler (): mlfqs_thread = thread_current (); intr_disable ();
\* thread_block ()
MlfqsEntry ==
  /\ UNCHANGED procVars
  /\ UNCHANGED ncalls
  /\ UNCHANGED ret
  /\ panic = "" /\ ~sched.pending
  /\ pc[cur] = "mlfqs_entry"
  /\ mlfqs_thread' = cur
  /\ pc' = [pc EXCEPT ![cur] = "mlfqs_woken"]
  /\ schedule([status EXCEPT ![cur] = "BLOCKED"], priority, RS,
              <<>>, idle_thread)
  /\ UNCHANGED <<thread_mlfqs, thrVars, newt, all_list, idle_thread, next_tid, tickVars,
                 load_avg, synchVars>>

\* mlfqs_scheduler (): if (is_recent_cpu_update) thread_update_load_avg ()
MlfqsLoadAvg ==
  /\ UNCHANGED procVars
  /\ UNCHANGED ncalls
  /\ UNCHANGED ret
  /\ panic = "" /\ ~sched.pending
  /\ pc[cur] = "mlfqs_woken"
  /\ IF is_recent_cpu_update
     THEN IF idle_thread = NULL
          THEN /\ panic' = "idle_thread->tid"
               /\ UNCHANGED <<pc, load_avg>>
          ELSE /\ load_avg' = thread_update_load_avg
               /\ pc' = [pc EXCEPT ![cur] = "mlfqs_recent_cpu"]
               /\ UNCHANGED panic
     ELSE /\ pc' = [pc EXCEPT ![cur] = "mlfqs_priority"]
          /\ UNCHANGED <<load_avg, panic>>
  /\ UNCHANGED <<thread_mlfqs, status, thrVars, newt, listVars, cur, globVars, tickVars,
                 intr_level, sched, last_bucket, synchVars, fifo>>

\* mlfqs_scheduler (): thread_update_recent_cpu ()
MlfqsRecentCpu ==
  /\ UNCHANGED procVars
  /\ UNCHANGED ncalls
  /\ UNCHANGED ret
  /\ panic = "" /\ ~sched.pending
  /\ pc[cur] = "mlfqs_recent_cpu"
  /\ is_recent_cpu_update' = FALSE
  /\ recent_cpu' = thread_update_recent_cpu
  /\ pc' = [pc EXCEPT ![cur] = "mlfqs_priority"]
  /\ UNCHANGED <<thread_mlfqs, status, priority, orig_priority, nice, parent,
                 process_children, newt, listVars, cur, globVars, thread_ticks, ticks,
                 nticks, is_mlfqs_priority_update, load_avg, intr_level, sched, panic,
                 last_bucket, synchVars, fifo>>

\* mlfqs_scheduler (): if (is_mlfqs_priority_update) thread_update_priorities ()
MlfqsPriorities ==
  /\ UNCHANGED procVars
  /\ UNCHANGED ncalls
  /\ UNCHANGED ret
  /\ panic = "" /\ ~sched.pending
  /\ pc[cur] = "mlfqs_priority"
  /\ IF ~is_mlfqs_priority_update
     THEN /\ pc' = [pc EXCEPT ![cur] = "mlfqs_block"]
          /\ UNCHANGED <<priority, mlfqs_lists, last_bucket, fifo, panic,
                         is_mlfqs_priority_update>>
     ELSE IF idle_thread = NULL
     THEN /\ panic' = "idle_thread->tid"
          /\ is_mlfqs_priority_update' = FALSE
          /\ UNCHANGED <<priority, mlfqs_lists, last_bucket, fifo, pc>>
     ELSE \E wipe \in BOOLEAN :
            \E r \in {thread_update_priorities(
                        [pr |-> priority, rs |-> RS, ub |-> FALSE], 1, wipe)} :
               /\ wipe => r.ub
               /\ priority' = r.pr
               /\ mlfqs_lists' = r.rs.ml
               /\ last_bucket' = r.rs.lb
               /\ fifo' = SelectSeq(fifo, LAMBDA x : InBuckets(r.rs, x))
                          \o SelectSeq(all_list, LAMBDA x : InBuckets(r.rs, x) /\ ~InSeq(fifo, x))
               /\ is_mlfqs_priority_update' = FALSE
               /\ pc' = [pc EXCEPT ![cur] = "mlfqs_block"]
               /\ UNCHANGED panic
  /\ UNCHANGED <<thread_mlfqs, status, orig_priority, nice, recent_cpu, parent,
                 process_children, newt, all_list, ready_list, cur, globVars, thread_ticks,
                 ticks, nticks, is_recent_cpu_update, load_avg, intr_level, sched,
                 synchVars>>

\* mlfqs_scheduler (): intr_disable (); thread_block ()
MlfqsBlock ==
  /\ UNCHANGED procVars
  /\ UNCHANGED ncalls
  /\ UNCHANGED ret
  /\ panic = "" /\ ~sched.pending
  /\ pc[cur] = "mlfqs_block"
  /\ pc' = [pc EXCEPT ![cur] = "mlfqs_woken"]
  /\ schedule([status EXCEPT ![cur] = "BLOCKED"], priority, RS,
              <<>>, idle_thread)
  /\ UNCHANGED <<thread_mlfqs, thrVars, newt, all_list, globVars, tickVars, load_avg,
                 synchVars>>

(* ----------------------------- timer tick ----------------------------- *)
\* thread_tick () in the timer interrupt, and the thread_yield () the
\* interrupt return performs when intr_yield_on_return () was called; the
\* run delivers at most limit timer interrupts
timer_interrupt(limit) ==
  /\ UNCHANGED procVars
  /\ UNCHANGED ncalls
  /\ UNCHANGED ret
  /\ panic = "" /\ ~sched.pending
  /\ intr_level = "ON"
  /\ nticks < limit
  /\ LET tk == ticks + 1
         f1 == is_recent_cpu_update \/ (tk % TIMER_FREQ = 0)
         tt == thread_ticks + 1
         f2 == is_mlfqs_priority_update \/ tt >= TIME_SLICE
         want == thread_mlfqs /\ (f2 \/ f1)
         wake == want /\ mlfqs_thread # NULL /\ status[mlfqs_thread] = "BLOCKED"
         st == IF wake THEN [status EXCEPT ![mlfqs_thread] = "READY"] ELSE status
         rs == IF wake THEN thread_unblock(RS, mlfqs_thread, priority) ELSE RS
         arr == IF wake THEN <<mlfqs_thread>> ELSE <<>>
     IN /\ recent_cpu' = [recent_cpu EXCEPT ![cur] = INT_ADD(@, 1)]
        /\ ticks' = tk
        /\ nticks' = nticks + 1
        /\ is_recent_cpu_update' = f1
        /\ is_mlfqs_priority_update' = f2
        /\ thread_ticks' = tt
        /\ pc' = [pc EXCEPT ![cur] = IF @ = "idle_hlt" THEN "idle_loop" ELSE @]
        /\ IF want /\ mlfqs_thread = NULL
           THEN /\ panic' = "mlfqs_thread->status"
                /\ UNCHANGED <<status, ready_list, mlfqs_lists, cur, sched, intr_level,
                               last_bucket, fifo>>
           ELSE IF tt >= TIME_SLICE \/ wake
           THEN thread_yield(st, priority, rs, arr, idle_thread)
           ELSE proceed(st, rs, arr, "ON")
  /\ UNCHANGED <<thread_mlfqs, priority, orig_priority, nice, parent, process_children,
                 newt, all_list, globVars, load_avg, synchVars>>

\* thread_tick that leaves out the intr_yield_on_return () of the time slice
thread_tick_no_slice_yield ==
  /\ UNCHANGED procVars
  /\ UNCHANGED ncalls
  /\ UNCHANGED ret
  /\ panic = "" /\ ~sched.pending
  /\ intr_level = "ON"
  /\ nticks < MaxTicks
  /\ LET tk == ticks + 1
         f1 == is_recent_cpu_update \/ (tk % TIMER_FREQ = 0)
         tt == thread_ticks + 1
         f2 == is_mlfqs_priority_update \/ tt >= TIME_SLICE
         want == thread_mlfqs /\ (f2 \/ f1)
         wake == want /\ mlfqs_thread # NULL /\ status[mlfqs_thread] = "BLOCKED"
         st == IF wake THEN [status EXCEPT ![mlfqs_thread] = "READY"] ELSE status
         rs == IF wake THEN thread_unblock(RS, mlfqs_thread, priority) ELSE RS
         arr == IF wake THEN <<mlfqs_thread>> ELSE <<>>
     IN /\ recent_cpu' = [recent_cpu EXCEPT ![cur] = INT_ADD(@, 1)]
        /\ ticks' = tk
        /\ nticks' = nticks + 1
        /\ is_recent_cpu_update' = f1
        /\ is_mlfqs_priority_update' = f2
        /\ thread_ticks' = tt
        /\ pc' = [pc EXCEPT ![cur] = IF @ = "idle_hlt" THEN "idle_loop" ELSE @]
        /\ IF want /\ mlfqs_thread = NULL
           THEN /\ panic' = "mlfqs_thread->status"
                /\ UNCHANGED <<status, ready_list, mlfqs_lists, cur, sched, intr_level,
                               last_bucket, fifo>>
           ELSE IF wake
           THEN thread_yield(st, priority, rs, arr, idle_thread)
           ELSE proceed(st, rs, arr, "ON")
  /\ UNCHANGED <<thread_mlfqs, priority, orig_priority, nice, parent, process_children,
                 newt, all_list, globVars, load_avg, synchVars>>

\* thread_tick that never unblocks the housekeeping thread
thread_tick_no_wake ==
  /\ UNCHANGED procVars
  /\ UNCHANGED ncalls
  /\ UNCHANGED ret
  /\ panic = "" /\ ~sched.pending
  /\ intr_level = "ON"
  /\ nticks < MaxTicks
  /\ LET tk == ticks + 1
         f1 == is_recent_cpu_update \/ (tk % TIMER_FREQ = 0)
         tt == thread_ticks + 1
         f2 == is_mlfqs_priority_update \/ tt >= TIME_SLICE
         want == thread_mlfqs /\ (f2 \/ f1)
         wake == FALSE
         st == IF wake THEN [status EXCEPT ![mlfqs_thread] = "READY"] ELSE status
         rs == IF wake THEN thread_unblock(RS, mlfqs_thread, priority) ELSE RS
         arr == IF wake THEN <<mlfqs_thread>> ELSE <<>>
     IN /\ recent_cpu' = [recent_cpu EXCEPT ![cur] = INT_ADD(@, 1)]
        /\ ticks' = tk
        /\ nticks' = nticks + 1
        /\ is_recent_cpu_update' = f1
        /\ is_mlfqs_priority_update' = f2
        /\ thread_ticks' = tt
        /\ pc' = [pc EXCEPT ![cur] = IF @ = "idle_hlt" THEN "idle_loop" ELSE @]
        /\ IF want /\ mlfqs_thread = NULL
           THEN /\ panic' = "mlfqs_thread->status"
                /\ UNCHANGED <<status, ready_list, mlfqs_lists, cur, sched, intr_level,
                               last_bucket, fifo>>
           ELSE IF tt >= TIME_SLICE \/ wake
           THEN thread_yield(st, priority, rs, arr, idle_thread)
           ELSE proceed(st, rs, arr, "ON")
  /\ UNCHANGED <<thread_mlfqs, priority, orig_priority, nice, parent, process_children,
                 newt, all_list, globVars, load_avg, synchVars>>

\* the timer interrupt of the runs that start at boot
thread_tick == timer_interrupt(MaxTicks)


(* --------------------------- lifecycle API ---------------------------- *)
\* a thread between two calls: main after thread_start, or a created
\* thread inside its function
AtCall(t) == Running(t) /\ pc[t] = "run" /\ ncalls < MaxCalls

\* thread_create that consumes a tid before it tests the page
CreateNoPage_takes_tid ==
  /\ AtCall(cur)
  /\ UNCHANGED procVars
  /\ ncalls' = ncalls + 1
  /\ ret' = [ret EXCEPT ![cur] = TID_ERROR]
  /\ next_tid' = next_tid + 1
  /\ UNCHANGED <<thread_mlfqs, status, thrVars, pc, newt, listVars, cur, idle_thread,
                 mlfqs_thread, tickVars, load_avg, intr_level, sched, panic,
                 last_bucket, synchVars, fifo>>

\* thread_create when palloc_get_page (PAL_ZERO) returns NULL:
\* return TID_ERROR
CreateNoPage ==
  /\ AtCall(cur)
  /\ UNCHANGED procVars
  /\ ncalls' = ncalls + 1
  /\ ret' = [ret EXCEPT ![cur] = TID_ERROR]
  /\ UNCHANGED <<thread_mlfqs, status, thrVars, pc, newt, listVars, cur, globVars,
                 tickVars, load_avg, intr_level, sched, panic, last_bucket, synchVars,
                 fifo>>

\* thread_create (name, p, function, aux) up to allocate_tid and the child
\* record: palloc_get_page, init_thread, tid, process_children
CreateInit(p) ==
  /\ UNCHANGED procVars
  /\ ncalls' = ncalls + 1
  /\ UNCHANGED ret
  /\ AtCall(cur)
  /\ next_tid <= MaxTid
  /\ init_thread(next_tid, p)
  /\ status' = [status EXCEPT ![next_tid] = "BLOCKED"]
  /\ newt' = [newt EXCEPT ![cur] = next_tid]
  /\ pc' = [pc EXCEPT ![cur] = "create_unblock", ![next_tid] = "run"]
  /\ UNCHANGED <<thread_mlfqs, ready_list, mlfqs_lists, cur, idle_thread, mlfqs_thread,
                 tickVars, load_avg, intr_level, sched, panic, last_bucket, synchVars, fifo>>

\* thread_create whose thread_unblock (t) yields to a higher-priority t
CreateUnblock_preempts ==
  /\ UNCHANGED procVars
  /\ UNCHANGED ncalls
  /\ UNCHANGED ret
  /\ Running(cur) /\ pc[cur] = "create_unblock"
  /\ LET t == newt[cur]
     IN IF priority[t] > priority[cur]
        THEN thread_yield([status EXCEPT ![t] = "READY"], priority,
                          thread_unblock(RS, t, priority), <<t>>, idle_thread)
        ELSE proceed([status EXCEPT ![t] = "READY"], thread_unblock(RS, t, priority),
                     <<t>>, "ON")
  /\ pc' = [pc EXCEPT ![cur] = "create_check"]
  /\ UNCHANGED <<thread_mlfqs, thrVars, newt, all_list, globVars, tickVars, load_avg,
                 synchVars>>

\* thread_create: the stack frames and thread_unblock (t)
CreateUnblock ==
  /\ UNCHANGED procVars
  /\ UNCHANGED ncalls
  /\ UNCHANGED ret
  /\ Running(cur) /\ pc[cur] = "create_unblock"
  /\ LET t == newt[cur]
     IN proceed([status EXCEPT ![t] = "READY"], thread_unblock(RS, t, priority), <<t>>, "ON")
  /\ pc' = [pc EXCEPT ![cur] = "create_check"]
  /\ UNCHANGED <<thread_mlfqs, thrVars, newt, all_list, globVars, tickVars, load_avg,
                 synchVars>>

\* thread_create: if (t->priority > thread_current ()->priority
\* && t != idle_thread) thread_yield ().  When t has already run, exited
\* and been freed, t->priority reads a freed page: any outcome of the test.
CreateCheck ==
  /\ UNCHANGED procVars
  /\ UNCHANGED ncalls
  /\ ret' = [ret EXCEPT ![cur] = newt[cur]]
  /\ Running(cur) /\ pc[cur] = "create_check"
  /\ LET t == newt[cur]
     IN \E higher \in BOOLEAN :
          /\ status[t] # "FREED" => higher = (priority[t] > priority[cur])
          /\ IF higher /\ t # idle_thread
             THEN thread_yield(status, priority, RS, <<>>, idle_thread)
             ELSE proceed(status, RS, <<>>, "ON")
  /\ pc' = [pc EXCEPT ![cur] = "run"]
  /\ newt' = [newt EXCEPT ![cur] = NULL]
  /\ UNCHANGED <<thread_mlfqs, thrVars, all_list, globVars, tickVars, load_avg, synchVars>>

\* thread_yield () called by a thread
Yield ==
  /\ UNCHANGED procVars
  /\ ncalls' = ncalls + 1
  /\ UNCHANGED ret
  /\ AtCall(cur)
  /\ thread_yield(status, priority, RS, <<>>, idle_thread)
  /\ UNCHANGED <<thread_mlfqs, thrVars, pc, newt, all_list, globVars, tickVars, load_avg,
                 synchVars>>

\* thread_set_priority (new_priority): the priority the caller ends with
set_priority_value(new_priority) ==
  IF donors_list[cur] = <<>> \/ new_priority > priority[cur]
  THEN new_priority
  ELSE priority[cur]

\* thread_set_priority (new_priority)
thread_set_priority(new_priority) ==
  /\ UNCHANGED procVars
  /\ ncalls' = ncalls + 1
  /\ UNCHANGED ret
  /\ AtCall(cur)
  /\ LET pr == [priority EXCEPT ![cur] = set_priority_value(new_priority)]
     IN /\ orig_priority' = [orig_priority EXCEPT ![cur] = CLAMP(new_priority, PRI_MIN, PRI_MAX)]
        /\ priority' = pr
        /\ IF ready_list # <<>> /\ pr[Head(ready_list)] > pr[cur]
           THEN thread_yield(status, pr, RS, <<>>, idle_thread)
           ELSE proceed(status, RS, <<>>, "ON")
  /\ UNCHANGED <<thread_mlfqs, nice, recent_cpu, parent, process_children, pc, newt,
                 all_list, globVars, tickVars, load_avg, synchVars>>

\* thread_get_priority ()
thread_get_priority == priority[cur]

\* thread_set_nice (n).  Without -o mlfqs the buckets were never
\* list_init'ed and what list_empty answers for them is undefined: the
\* highest priority found is -1 or PRI_MAX.
thread_set_nice(n) ==
  /\ UNCHANGED procVars
  /\ ncalls' = ncalls + 1
  /\ UNCHANGED ret
  /\ AtCall(cur)
  /\ LET ni == [nice EXCEPT ![cur] = CLAMP(n, NICE_MIN, NICE_MAX)]
         a == thread_update_priority([pr |-> priority, rs |-> RS, ub |-> FALSE],
                                     cur, ni, FALSE)
     IN /\ nice' = ni
        /\ priority' = a.pr
        /\ \E highest_priority \in {-1, PRI_MAX, thread_mlfqs_get_highest_priority(a.rs)} :
             /\ thread_mlfqs => highest_priority = thread_mlfqs_get_highest_priority(a.rs)
             /\ ~thread_mlfqs => highest_priority \in {-1, PRI_MAX}
             /\ IF highest_priority # -1 /\ a.pr[cur] < highest_priority
                THEN thread_yield(status, a.pr, a.rs, <<>>, idle_thread)
                ELSE proceed(status, a.rs, <<>>, "ON")
  /\ UNCHANGED <<thread_mlfqs, orig_priority, recent_cpu, parent, process_children, pc,
                 newt, all_list, globVars, tickVars, load_avg, synchVars>>

\* thread_exit that leaves out "list_remove (&thread_current ()->allelem)"
thread_exit_keeps_allelem ==
  /\ UNCHANGED procVars
  /\ ncalls' = ncalls + 1
  /\ UNCHANGED ret
  /\ AtCall(cur)
  /\ \A l \in Locks : lock_holder[l] # cur
  /\ process_children' = [process_children EXCEPT ![cur] = <<>>]
  /\ all_list' = all_list
  /\ pc' = [pc EXCEPT ![cur] = "exited"]
  /\ schedule([status EXCEPT ![cur] = "DYING"], priority, RS, <<>>, idle_thread)
  /\ UNCHANGED <<thread_mlfqs, priority, orig_priority, nice, recent_cpu, parent, newt,
                 globVars, tickVars, load_avg, synchVars>>

\* thread_exit (): empty process_children, leave all_list, DYING, schedule ().
\* The model's threads release their locks before they exit.
thread_exit ==
  /\ UNCHANGED procVars
  /\ ncalls' = ncalls + 1
  /\ UNCHANGED ret
  /\ AtCall(cur)
  /\ \A l \in Locks : lock_holder[l] # cur
  /\ process_children' = [process_children EXCEPT ![cur] = <<>>]
  /\ all_list' = Remove(all_list, cur)
  /\ pc' = [pc EXCEPT ![cur] = "exited"]
  /\ schedule([status EXCEPT ![cur] = "DYING"], priority, RS,
              <<>>, idle_thread)
  /\ UNCHANGED <<thread_mlfqs, priority, orig_priority, nice, recent_cpu, parent, newt,
                 globVars, tickVars, load_avg, synchVars>>

(* ------------------------------- locks -------------------------------- *)
\* the donation walk of lock_acquire: from lock l, holder after holder, at
\* most depth levels, each holder raised to priority p if lower
RECURSIVE donate(_, _, _, _)
donate(pr, l, p, depth) ==
  IF depth = 0 \/ l = NULL \/ lock_holder[l] = NULL THEN pr
  ELSE LET h == lock_holder[l]
       IN donate(IF pr[h] < p THEN [pr EXCEPT ![h] = p] ELSE pr, wait_lock[h], p, depth - 1)

DONATION_DEPTH == 8

\* lock_acquire (l)
lock_acquire(l) ==
  /\ UNCHANGED procVars
  /\ ncalls' = ncalls + 1
  /\ UNCHANGED ret
  /\ AtCall(cur)
  /\ lock_holder[l] # cur
  /\ IF lock_holder[l] # NULL
     THEN LET h == lock_holder[l]
              pr == donate(priority, l, priority[cur], DONATION_DEPTH)
          IN /\ wait_lock' = [wait_lock EXCEPT ![cur] = l]
             /\ priority' = pr
             /\ donors_list' = IF pr[h] # priority[h]
                               THEN [donors_list EXCEPT ![h] = Append(@, cur)]
                               ELSE donors_list
             /\ sema_waiters' = [sema_waiters EXCEPT ![l] = Append(@, cur)]
             /\ pc' = [pc EXCEPT ![cur] = "sema_wait_lock"]
             /\ schedule([status EXCEPT ![cur] = "BLOCKED"], pr, RS,
                         <<>>, idle_thread)
             /\ UNCHANGED <<sema_value, thread_lock, lock_holder>>
     ELSE /\ sema_value' = [sema_value EXCEPT ![l] = @ - 1]
          /\ lock_holder' = [lock_holder EXCEPT ![l] = cur]
          /\ thread_lock' = [thread_lock EXCEPT ![cur] = l]
          /\ proceed(status, RS, <<>>, "ON")
          /\ UNCHANGED <<priority, donors_list, wait_lock, sema_waiters, pc>>
  /\ UNCHANGED <<thread_mlfqs, orig_priority, nice, recent_cpu, parent, process_children,
                 newt, all_list, globVars, tickVars, load_avg>>

\* max (base priority, priorities of the donors)
donated_priority(t, donors, pr) ==
  LET s == {orig_priority[t]} \cup {pr[donors[i]] : i \in 1..Len(donors)}
  IN CHOOSE m \in s : \A x \in s : x <= m

\* lock_release (l)
lock_release(l) ==
  /\ UNCHANGED procVars
  /\ ncalls' = ncalls + 1
  /\ UNCHANGED ret
  /\ AtCall(cur)
  /\ lock_holder[l] = cur
  /\ LET donors == SelectSeq(donors_list[cur], LAMBDA d : wait_lock[d] # l)
         pr == [priority EXCEPT ![cur] = donated_priority(cur, donors, priority)]
     IN /\ donors_list' = [donors_list EXCEPT ![cur] = donors]
        /\ priority' = pr
        /\ lock_holder' = [lock_holder EXCEPT ![l] = NULL]
        /\ sema_up(l, pr, idle_thread)
  /\ UNCHANGED <<thread_mlfqs, orig_priority, nice, recent_cpu, parent, process_children,
                 pc, newt, all_list, globVars, tickVars, load_avg, wait_lock, thread_lock>>

(* ------------------------------- Next --------------------------------- *)
Next ==
  \/ StartCreateIdle
  \/ StartCreateMlfqs
  \/ StartWaitIdle
  \/ thread_schedule_tail
  \/ SemaDownResume
  \/ IdleEntry
  \/ IdleBlock
  \/ MlfqsEntry
  \/ MlfqsLoadAvg
  \/ MlfqsRecentCpu
  \/ MlfqsPriorities
  \/ MlfqsBlock
  \/ thread_tick
  \/ CreateNoPage
  \/ \E p \in CreatePriorities : CreateInit(p)
  \/ CreateUnblock
  \/ CreateCheck
  \/ Yield
  \/ \E x \in SetPriorities : thread_set_priority(x)
  \/ \E n \in SetNices : thread_set_nice(n)
  \/ thread_exit
  \/ \E l \in Locks : lock_acquire(l)
  \/ \E l \in Locks : lock_release(l)

Spec == Init /\ [][Next]_vars

\* the instruction the CPU executes next inside thread_start, idle,
\* mlfqs_scheduler, thread_create, sema_down or a thread switch
CpuStep ==
  \/ StartCreateIdle \/ StartCreateMlfqs \/ StartWaitIdle
  \/ thread_schedule_tail
  \/ SemaDownResume
  \/ IdleEntry \/ IdleBlock
  \/ MlfqsEntry \/ MlfqsLoadAvg \/ MlfqsRecentCpu \/ MlfqsPriorities \/ MlfqsBlock
  \/ CreateUnblock \/ CreateCheck

\* the kernel booted with -o mlfqs
MlfqsInit == Init /\ thread_mlfqs

\* the steps of a kernel whose threads start threads, yield and exit
MlfqsNext ==
  \/ CpuStep
  \/ thread_tick
  \/ \E p \in CreatePriorities : CreateInit(p)
  \/ Yield
  \/ thread_exit

\* the CPU keeps executing and the timer keeps interrupting while interrupts
\* are enabled; no thread is obliged to call the thread API
FairSpec == MlfqsInit /\ [][MlfqsNext]_vars /\ WF_vars(CpuStep) /\ WF_vars(thread_tick)



(* ------------------- runs that start with lock waiters ---------------- *)
\* A kernel in priority mode some time after boot.  main, base priority pm,
\* holds lock 1, and the threads of w, created by main, called lock_acquire
\* (1) in the order of w while main slept (timer_sleep): each raised main's
\* priority if it was lower and was then put on main's donor list.  With
\* chain, thread h2 of w holds lock 2 and thread 6, priority 40, has just
\* been created by main and runs; without, thread 6 is the third waiter.
LockInit ==
  \E pa \in WaitPriorities, pb \in WaitPriorities, pc3 \in WaitPriorities,
     pm \in {10, PRI_DEFAULT}, chain \in BOOLEAN, h2 \in {4, 5} :
    LET w == IF chain THEN (IF h2 = 4 THEN <<5, 4>> ELSE <<4, 5>>) ELSE <<4, 5, 6>>
        base == [t \in Tids |->
                   CASE t = MAIN -> pm
                     [] t = 2 -> PRI_MIN
                     [] t = 3 -> PRI_MAX
                     [] t = 4 -> pa
                     [] t = 5 -> pb
                     [] t = 6 -> IF chain THEN 40 ELSE pc3
                     [] OTHER -> 0]
        donors == SelectSeq(w, LAMBDA t : /\ base[t] > pm
                                          /\ \A j \in 1..(IndexOf(w, t) - 1) :
                                               base[w[j]] < base[t])
        top == CHOOSE m \in {pm} \cup {base[w[i]] : i \in 1..Len(w)} :
                 \A i \in 1..Len(w) : base[w[i]] <= m /\ pm <= m
    IN /\ (~chain => h2 = 4)
       /\ thread_mlfqs = FALSE
       /\ status = [t \in Tids |->
                      IF t \in 1..6
                      THEN (IF t = (IF chain THEN 6 ELSE MAIN) THEN "RUNNING"
                            ELSE IF t = MAIN THEN "READY" ELSE "BLOCKED")
                      ELSE "NONE"]
       /\ priority = [base EXCEPT ![MAIN] = top]
       /\ orig_priority = base
       /\ nice = [t \in Tids |-> NICE_INIT]
       /\ recent_cpu = [t \in Tids |-> 0]
       /\ parent = [t \in Tids |-> IF t \in 1..6 THEN MAIN ELSE NULL]
       /\ process_children =
            [t \in Tids |-> IF t = MAIN THEN [i \in 1..5 |-> child_record(i + 1)] ELSE <<>>]
       /\ pc = [t \in Tids |->
                  CASE t = 2 -> "idle_hlt"
                    [] t = 3 -> "mlfqs_woken"
                    [] InSeq(w, t) -> "sema_wait_lock"
                    [] t = MAIN \/ t = 6 -> "run"
                    [] OTHER -> "none"]
       /\ newt = [t \in Tids |-> NULL]
       /\ all_list = <<1, 2, 3, 4, 5, 6>>
       /\ ready_list = IF chain THEN <<MAIN>> ELSE <<>>
       /\ mlfqs_lists = <<>>
       /\ cur = IF chain THEN 6 ELSE MAIN
       /\ idle_thread = 2
       /\ mlfqs_thread = 3
       /\ next_tid = 7
       /\ thread_ticks = 0
       /\ ticks = TIMER_FREQ - BootSlack
       /\ nticks = 0
       /\ is_recent_cpu_update = FALSE
       /\ is_mlfqs_priority_update = FALSE
       /\ load_avg = 0
       /\ intr_level = "ON"
       /\ sched = NoSched
       /\ panic = ""
       /\ last_bucket = [t \in Tids |-> -1]
       /\ donors_list = [t \in Tids |-> IF t = MAIN THEN donors ELSE <<>>]
       /\ wait_lock = [t \in Tids |-> IF InSeq(w, t) THEN 1 ELSE NULL]
       /\ thread_lock = [t \in Tids |->
                           IF t = MAIN THEN 1 ELSE IF chain /\ t = h2 THEN 2 ELSE NULL]
       /\ lock_holder = [l \in 1..ChainLocks |->
                           IF l = 1 THEN MAIN ELSE IF chain /\ l = 2 THEN h2 ELSE NULL]
       /\ sema_value = [s \in 0..ChainLocks |->
                          IF s = IDLE_STARTED \/ s = 1 \/ (chain /\ s = 2) THEN 0 ELSE 1]
       /\ sema_waiters = [s \in 0..ChainLocks |-> IF s = 1 THEN w ELSE <<>>]
       /\ fifo = IF chain THEN <<MAIN>> ELSE <<>>
       /\ ncalls = 0
       /\ tid_wait = [t \in Tids |-> 0]
       /\ exit_status = [t \in Tids |-> EXIT_STATUS_FAIL]
       /\ wait_status = [t \in Tids |-> NULL]
       /\ ret = [t \in Tids |-> IF t = MAIN THEN 6 ELSE NULL]

\* the threads take and release the locks; the CPU finishes thread switches
\* and sema_down
LockNext ==
  \/ thread_schedule_tail
  \/ SemaDownResume
  \/ \E l \in 1..ChainLocks : lock_acquire(l)
  \/ \E l \in 1..ChainLocks : lock_release(l)

LockSpec == LockInit /\ [][LockNext]_vars


(* ------------------- exit and wait of user processes ------------------ *)
\* the statuses the model's threads pass to exit
ExitStatuses == {0, 7}

\* the handler's loop over the parent's process_children: the record whose
\* tid is t gets did_execute and the status
record_exit(l, t, s) ==
  [i \in 1..Len(l) |->
     IF l[i].tid = t THEN [l[i] EXCEPT !.did_execute = TRUE, !.exit_status = s]
     ELSE l[i]]

\* list l holds a child record of t
has_child(l, t) == \E i \in 1..Len(l) : l[i].tid = t

\* the child record of t in list l
child_of(l, t) == l[CHOOSE i \in 1..Len(l) : l[i].tid = t]

\* thread_current ()->parent points into a page that palloc_free_page has
\* taken back
ParentFreed(t) == status[parent[t]] = "FREED"

\* SYSCALL_exit_handler (s) up to its call of thread_exit (), for a thread
\* that thread_create made (main runs no user program). Through a
\* parent pointer into a freed page the handler either faults or finds the
\* bytes the parent left there.
SYSCALL_exit_handler(s) ==
  /\ Running(cur) /\ pc[cur] = "run"
  /\ cur # MAIN
  /\ \E p \in {parent[cur]} :
       \/ /\ ParentFreed(cur)
          /\ panic' = "exit: parent freed"
          /\ UNCHANGED <<status, pc, listVars, last_bucket, fifo, intr_level, cur, sched,
                         process_children, exit_status, sema_value, sema_waiters>>
       \/ /\ process_children' = [process_children EXCEPT ![p] = record_exit(@, cur, s)]
          /\ exit_status' = [exit_status EXCEPT ![cur] = s]
          /\ pc' = [pc EXCEPT ![cur] = "exit_thread"]
          /\ IF tid_wait[p] = cur
             THEN sema_up(child_process_lock(p), priority, idle_thread)
             ELSE /\ proceed(status, RS, <<>>, "ON")
                  /\ UNCHANGED <<sema_value, sema_waiters>>
  /\ UNCHANGED <<thread_mlfqs, priority, orig_priority, nice, recent_cpu, parent, newt,
                 globVars, tickVars, load_avg, donors_list, wait_lock, thread_lock,
                 lock_holder, ncalls, ret, tid_wait, wait_status>>
  /\ UNCHANGED all_list

\* SYSCALL_exit_handler: thread_exit ()
ExitHandlerExit ==
  /\ Running(cur) /\ pc[cur] = "exit_thread"
  /\ process_children' = [process_children EXCEPT ![cur] = <<>>]
  /\ all_list' = Remove(all_list, cur)
  /\ pc' = [pc EXCEPT ![cur] = "exited"]
  /\ schedule([status EXCEPT ![cur] = "DYING"], priority, RS, <<>>, idle_thread)
  /\ UNCHANGED <<thread_mlfqs, priority, orig_priority, nice, recent_cpu, parent, newt,
                 globVars, tickVars, load_avg, synchVars, ncalls, ret, procVars>>

\* process_wait (c) for a child c of the caller: tid_wait = c, then the
\* status if c has exited, else sema_down (&child_process_lock)
process_wait(c) ==
  /\ AtCall(cur)
  /\ ncalls' = ncalls + 1
  /\ has_child(process_children[cur], c)
  /\ tid_wait' = [tid_wait EXCEPT ![cur] = c]
  /\ \E f \in {child_of(process_children[cur], c)} :
     \E s \in {child_process_lock(cur)} :
       IF f.did_execute
       THEN /\ wait_status' = [wait_status EXCEPT ![cur] = f.exit_status]
            /\ proceed(status, RS, <<>>, "ON")
            /\ UNCHANGED <<pc, sema_value, sema_waiters>>
       ELSE IF sema_value[s] = 0
       THEN /\ sema_down_block(s, "sema_wait_child")
            /\ UNCHANGED <<sema_value, wait_status>>
       ELSE /\ sema_value' = [sema_value EXCEPT ![s] = @ - 1]
            /\ wait_status' = [wait_status EXCEPT ![cur] = f.exit_status]
            /\ proceed(status, RS, <<>>, "ON")
            /\ UNCHANGED <<pc, sema_waiters>>
  /\ UNCHANGED <<thread_mlfqs, thrVars, newt, all_list, globVars, tickVars, load_avg,
                 donors_list, wait_lock, thread_lock, lock_holder, ret, exit_status>>

\* process_wait after thread_block () returned: take the semaphore and read
\* the child's record, or wait again
WaitResume ==
  /\ Running(cur) /\ pc[cur] = "sema_wait_child"
  /\ \E s \in {child_process_lock(cur)} :
       IF sema_value[s] = 0
       THEN /\ sema_down_block(s, "sema_wait_child")
            /\ UNCHANGED <<sema_value, wait_status>>
       ELSE /\ sema_value' = [sema_value EXCEPT ![s] = @ - 1]
            /\ wait_status' = [wait_status EXCEPT ![cur] =
                 child_of(process_children[cur], tid_wait[cur]).exit_status]
            /\ pc' = [pc EXCEPT ![cur] = "run"]
            /\ proceed(status, RS, <<>>, "ON")
            /\ UNCHANGED sema_waiters
  /\ UNCHANGED <<thread_mlfqs, thrVars, newt, all_list, globVars, tickVars, load_avg,
                 donors_list, wait_lock, thread_lock, lock_holder, ncalls, ret,
                 tid_wait, exit_status>>

\* a kernel without -o mlfqs that runs processes
ProcInit == Init /\ ~thread_mlfqs

ProcNext ==
  \/ StartCreateIdle
  \/ StartCreateMlfqs
  \/ StartWaitIdle
  \/ thread_schedule_tail
  \/ SemaDownResume
  \/ IdleEntry
  \/ IdleBlock
  \/ MlfqsEntry
  \/ \E p \in CreatePriorities : CreateInit(p)
  \/ CreateUnblock
  \/ CreateCheck
  \/ Yield
  \/ thread_exit
  \/ \E s \in ExitStatuses : SYSCALL_exit_handler(s)
  \/ ExitHandlerExit
  \/ \E c \in Tids : process_wait(c)
  \/ WaitResume

ProcSpec == ProcInit /\ [][ProcNext]_vars


(* ------------- runs that start in a housekeeping pass ----------------- *)
\* recent_cpu values of main: whole ticks, and a few 1/16384ths more
RecentCpus == {i * FP_F + d : i \in (-32)..MaxCpu, d \in {0, 1, 4}}

\* load_avg values: multiples of 1/60, rounded down as the recomputation does
LoadAvgs == {CDiv(i * FP_F, 60) : i \in 0..MaxLoad}

\* A kernel with -o mlfqs some time after boot: the tick that raised f1
\* (is_recent_cpu_update) and f2 (is_mlfqs_priority_update) has woken the
\* housekeeping thread, which runs.  main has recent_cpu rc and nice ni and
\* status sm; the threads 4 and 5 it created have status s4 and s5 ("FREED":
\* exited).  main, 4 and 5 have priority PRI_DEFAULT; those that are READY
\* are in bucket PRI_DEFAULT, those that are BLOCKED sleep in timer_sleep.
\* When none is READY the tick interrupted the idle thread, which yielded.
HouseState(rc, ni, la, f1, f2, sm, s4, s5) ==
  LET st == [t \in Tids |->
               CASE t = MAIN -> sm
                 [] t = 2 -> IF "READY" \in {sm, s4, s5} THEN "BLOCKED" ELSE "READY"
                 [] t = 3 -> "RUNNING"
                 [] t = 4 -> s4
                 [] t = 5 -> s5
                 [] OTHER -> "NONE"]
      ready == SelectSeq(<<1, 4, 5>>, LAMBDA t : st[t] = "READY")
  IN /\ thread_mlfqs = TRUE
     /\ status = st
     /\ priority = [t \in Tids |->
                      IF t \in {1, 4, 5} THEN PRI_DEFAULT ELSE IF t = 3 THEN PRI_MAX ELSE 0]
     /\ orig_priority = [t \in Tids |->
                           IF t \in {1, 4, 5} THEN PRI_DEFAULT ELSE IF t = 3 THEN PRI_MAX ELSE 0]
     /\ nice = [t \in Tids |-> IF t \in {1, 4, 5} THEN ni ELSE NICE_INIT]
     /\ recent_cpu = [t \in Tids |-> IF t = MAIN THEN rc ELSE 0]
     /\ parent = [t \in Tids |-> IF t \in 1..5 THEN MAIN ELSE NULL]
     /\ process_children =
          [t \in Tids |-> IF t = MAIN THEN [i \in 1..4 |-> child_record(i + 1)] ELSE <<>>]
     /\ pc = [t \in Tids |->
                CASE t = 2 -> IF st[2] = "READY" THEN "idle_loop" ELSE "idle_hlt"
                  [] t = 3 -> "mlfqs_woken"
                  [] t \in {1, 4, 5} -> (IF st[t] = "READY" THEN "run"
                                         ELSE IF st[t] = "BLOCKED" THEN "asleep" ELSE "exited")
                  [] OTHER -> "none"]
     /\ newt = [t \in Tids |-> NULL]
     /\ all_list = SelectSeq(<<1, 2, 3, 4, 5>>, LAMBDA t : st[t] # "FREED")
     /\ ready_list = <<>>
     /\ mlfqs_lists = ready
     /\ cur = 3
     /\ idle_thread = 2
     /\ mlfqs_thread = 3
     /\ next_tid = 6
     /\ thread_ticks = 0
     /\ ticks = TIMER_FREQ
     /\ nticks = 0
     /\ is_recent_cpu_update = f1
     /\ is_mlfqs_priority_update = f2
     /\ load_avg = la
     /\ intr_level = "ON"
     /\ sched = NoSched
     /\ panic = ""
     /\ last_bucket = [t \in Tids |->
                         IF t \in {1, 4, 5} THEN PRI_DEFAULT
                         ELSE IF t = 3 THEN PRI_MAX ELSE IF t = 2 THEN PRI_MIN ELSE -1]
     /\ donors_list = [t \in Tids |-> <<>>]
     /\ wait_lock = [t \in Tids |-> NULL]
     /\ thread_lock = [t \in Tids |-> NULL]
     /\ lock_holder = [l \in Locks |-> NULL]
     /\ sema_value = [s \in Semas |-> IF s \in 1..NumLocks THEN 1 ELSE 0]
     /\ sema_waiters = [s \in Semas |-> <<>>]
     /\ fifo = ready
     /\ ncalls = 0
     /\ tid_wait = [t \in Tids |-> 0]
     /\ exit_status = [t \in Tids |-> EXIT_STATUS_FAIL]
     /\ wait_status = [t \in Tids |-> NULL]
     /\ ret = [t \in Tids |-> IF t = MAIN THEN 5 ELSE NULL]

\* either main's recent_cpu and nice vary and the priorities are due, or
\* load_avg and the statuses of main and its threads vary and the load
\* average is due, with or without the priorities
HouseInit ==
  \/ \E rc \in RecentCpus, ni \in NICE_MIN..NICE_MAX :
       HouseState(rc, ni, 0, FALSE, TRUE, "READY", "FREED", "FREED")
  \/ \E la \in LoadAvgs, f2 \in BOOLEAN, sm \in {"READY", "BLOCKED"},
        s4 \in {"READY", "BLOCKED", "FREED"}, s5 \in {"READY", "BLOCKED", "FREED"} :
       HouseState(FP_F, NICE_INIT, la, TRUE, f2, sm, s4, s5)

\* the housekeeping thread makes its pass and blocks; the CPU goes to the
\* next thread or to the idle thread
HouseNext ==
  \/ MlfqsLoadAvg \/ MlfqsRecentCpu \/ MlfqsPriorities \/ MlfqsBlock
  \/ thread_schedule_tail
  \/ IdleBlock

HouseSpec == HouseInit /\ [][HouseNext]_vars

(* ---------------- runs in which only the idle thread runs ------------- *)
\* main and the threads it created sleep or have exited; the tick that made
\* timer_ticks () a multiple of TIMER_FREQ has woken the housekeeping thread
IdleInit ==
  \E la \in 1..MaxIdleLoad, f2 \in BOOLEAN,
     s4 \in {"BLOCKED", "FREED"}, s5 \in {"BLOCKED", "FREED"} :
    HouseState(FP_F, NICE_INIT, la, TRUE, f2, "BLOCKED", s4, s5)

\* TIMER_FREQ more ticks for each unit of load_avg the run can start with
IdleTicks == TIMER_FREQ * MaxIdleLoad

\* a timer period is long against a housekeeping pass: the timer interrupt
\* finds the CPU halted in the idle thread's hlt
idle_tick == pc[cur] = "idle_hlt" /\ timer_interrupt(IdleTicks)

IdleNext ==
  \/ HouseNext
  \/ idle_tick

\* the CPU keeps executing, and the timer keeps interrupting the halted CPU
IdleSpec == IdleInit /\ [][IdleNext]_vars /\ WF_vars(HouseNext) /\ WF_vars(idle_tick)

(* ------------------------------ claims -------------------------------- *)
\* the window between a status change in thread_block / thread_yield /
\* thread_exit and the end of thread_schedule_tail, or a kernel that stopped
\* on a null dereference
InCritical == sched.pending \/ panic # ""

\* C1: outside the interrupts-disabled window of a thread switch exactly one
\* thread has status RUNNING, and it is the thread that owns the CPU
C1_ExactlyOneRunning ==
  ~InCritical =>
    /\ status[cur] = "RUNNING"
    /\ \A t \in Tids : status[t] = "RUNNING" => t = cur

\* C1 witness: a created thread owns the CPU after a completed switch while
\* main waits in the ready structure
C1_Witness ==
  /\ ~InCritical
  /\ cur # MAIN /\ pc[cur] = "run"
  /\ status[cur] = "RUNNING"
  /\ status[MAIN] = "READY"

\* how many times thread t is linked into the scheduling structures
Membership(t) == Count(ready_list, t) + Count(mlfqs_lists, t)

\* C2: every READY thread is a member of exactly one scheduling structure
\* (the ready list, or one bucket) and every BLOCKED thread of none, the
\* idle thread included
C2_ReadyInOneStructure ==
  ~InCritical =>
    \A t \in Tids :
      /\ status[t] = "READY" => Membership(t) = 1
      /\ status[t] = "BLOCKED" => Membership(t) = 0

Live(t) == status[t] \in {"RUNNING", "READY", "BLOCKED"}

\* C3: every thread's priority is within PRI_MIN..PRI_MAX and not below its
\* base priority orig_priority
C3_PriorityInRange ==
  \A t \in Tids :
    Live(t) => /\ PRI_MIN <= priority[t]
               /\ priority[t] <= PRI_MAX
               /\ priority[t] >= orig_priority[t]

\* C4: without -o mlfqs, thread_set_priority (x) by a thread with an empty
\* donor list followed by its thread_get_priority () returns
\* CLAMP (x, PRI_MIN, PRI_MAX)
C4_SetThenGetPriority ==
  [][\A x \in SetPriorities :
       (~thread_mlfqs /\ donors_list[cur] = <<>> /\ thread_set_priority(x))
         => /\ priority'[cur] = CLAMP(x, PRI_MIN, PRI_MAX)
            /\ cur' = cur => thread_get_priority' = CLAMP(x, PRI_MIN, PRI_MAX)]_vars

C6_CreateYieldsIffHigher ==
  [][CreateCheck =>
       (sched'.pending <=>
          (priority[newt[cur]] > priority[cur] /\ newt[cur] # idle_thread))]_vars

\* C7: among the threads of one priority the one dispatched is the one that
\* arrived in the ready structure first
C7_FifoWithinPriority ==
  (sched.pending /\ panic = "") => sched.fifo_ok

\* C8: without -o mlfqs ready_list is in weakly descending order of priority
\* and the thread next_thread_to_run popped has the highest priority of the
\* READY threads
C8_ReadyListSorted ==
  ~thread_mlfqs =>
    /\ \A i, j \in 1..Len(ready_list) :
         i < j => priority[ready_list[i]] >= priority[ready_list[j]]
    /\ (sched.pending /\ panic = "" /\ ~sched.from_empty) =>
         \A i \in 1..Len(ready_list) : priority[cur] >= priority[ready_list[i]]

\* C9: next_thread_to_run returns the idle thread if and only if the ready
\* structure is empty; otherwise the thread it returns was READY and has
\* left the structure
C9_IdleIffEmpty ==
  (sched.pending /\ panic = "") =>
    /\ (cur = idle_thread) <=> sched.from_empty
    /\ ~sched.from_empty => Membership(cur) = 0

\* C10: a thread that called thread_exit is never dispatched again and is
\* freed once, by the thread_schedule_tail of the next thread; the initial
\* thread is never freed; only a DYING thread is freed
C10_ExitAndFree ==
  /\ [](\A t \in Tids :
          /\ status[t] \in {"DYING", "FREED"} => (cur # t /\ Membership(t) = 0)
          /\ (status[t] = "DYING" /\ t # MAIN) => (sched.pending /\ sched.prev = t)
          /\ t = MAIN => status[t] # "FREED")
  /\ [][\A t \in Tids :
          /\ status[t] = "FREED" => status'[t] = "FREED"
          /\ status[t] = "DYING" => status'[t] \in {"DYING", "FREED"}
          /\ (status[t] # "FREED" /\ status'[t] = "FREED")
               => (status[t] = "DYING" /\ sched.prev = t /\ cur # t /\ cur' = cur)]_vars

\* C10 witness: a created thread was freed and the initial thread, which
\* exited too, stays DYING
C10_Witness ==
  /\ status[MAIN] = "DYING"
  /\ ~sched.pending
  /\ \E t \in Tids : status[t] = "FREED"

\* C11: when palloc_get_page returns no page thread_create returns TID_ERROR
\* and changes nothing: no thread joins all_list or the ready structure, no
\* tid is consumed, the caller gets no child record and does not yield
C11_NoPageNoEffect ==
  [][CreateNoPage =>
       /\ ret'[cur] = TID_ERROR
       /\ UNCHANGED <<all_list, ready_list, mlfqs_lists, last_bucket, next_tid,
                      process_children, status, priority, cur, sched, intr_level, pc>>]_vars

\* C11 witness: a thread_create of main has returned TID_ERROR and the next
\* tid is still the first one after boot
C11_Witness ==
  /\ ret[MAIN] = TID_ERROR
  /\ next_tid = 4
  /\ all_list = <<1, 2, 3>>
  /\ process_children[MAIN] = <<child_record(2), child_record(3)>>

\* C12: thread_unblock (t) moves t from BLOCKED to READY and into the ready
\* structure and does nothing else: the running thread, its status and the
\* interrupt level are the same on return, no switch is started, and no
\* other thread changes status or position in the ready structure
C12_UnblockNeverPreempts ==
  [][CreateUnblock =>
       LET t == newt[cur]
       IN /\ status[t] = "BLOCKED" /\ status'[t] = "READY"
          /\ Count(ready_list', t) + Count(mlfqs_lists', t) = 1
          /\ cur' = cur
          /\ status'[cur] = status[cur]
          /\ intr_level' = intr_level
          /\ ~sched'.pending
          /\ \A u \in Tids \ {t} : status'[u] = status[u]
          /\ Remove(ready_list', t) = ready_list
          /\ Remove(mlfqs_lists', t) = mlfqs_lists]_vars

\* C12 witness: thread_create's thread_unblock has made a new thread of
\* higher priority READY and the creator still runs
C12_Witness ==
  /\ ~InCritical
  /\ pc[cur] = "create_check"
  /\ newt[cur] # NULL
  /\ status[newt[cur]] = "READY"
  /\ priority[newt[cur]] > priority[cur]
  /\ status[cur] = "RUNNING"

C14_TimeSlice ==
  /\ [](thread_ticks <= TIME_SLICE)
  /\ [][thread_schedule_tail => thread_ticks' = 0]_vars
  /\ [][(thread_tick /\ panic' = "") =>
          /\ thread_ticks' = thread_ticks + 1
          /\ thread_ticks' >= TIME_SLICE =>
               (is_mlfqs_priority_update' /\ sched'.pending /\ status'[cur] = "READY")]_vars

\* C14 witness: the tick that completed a time slice has made the running
\* thread yield
C14_Witness ==
  /\ sched.pending
  /\ thread_ticks = TIME_SLICE
  /\ is_mlfqs_priority_update
  /\ sched.prev # NULL
  /\ status[sched.prev] = "READY"

\* status of the housekeeping thread, "NONE" before mlfqs_scheduler ran
mlfqs_thread_status == IF mlfqs_thread = NULL THEN "NONE" ELSE status[mlfqs_thread]

\* one of the two flags thread_tick raises is set
mlfqs_flag == is_recent_cpu_update \/ is_mlfqs_priority_update

\* C15 (the tick): with -o mlfqs a tick that leaves a flag set while the
\* housekeeping thread is BLOCKED makes it READY, queued or chosen to run,
\* and makes the interrupted thread yield
C15_TickWakes ==
  [][(thread_mlfqs /\ thread_tick /\ panic' = "" /\ mlfqs_flag'
        /\ mlfqs_thread_status = "BLOCKED")
       => /\ status'[mlfqs_thread] = "READY"
          /\ sched'.pending
          /\ Count(mlfqs_lists', mlfqs_thread) = 1 \/ cur' = mlfqs_thread]_vars

\* C15 (no flag lost): is_recent_cpu_update falls only in the housekeeping
\* thread's thread_update_recent_cpu (), which follows thread_update_load_avg
\* (), and is_mlfqs_priority_update only in its thread_update_priorities (),
\* which recomputes the priority of every thread but idle and itself
C15_ClearedByRecompute ==
  /\ [][(is_recent_cpu_update /\ ~is_recent_cpu_update')
          => /\ cur = mlfqs_thread /\ pc[cur] = "mlfqs_recent_cpu"
             /\ recent_cpu' = thread_update_recent_cpu]_vars
  /\ [][(pc[cur] # "mlfqs_recent_cpu" /\ pc'[cur] = "mlfqs_recent_cpu")
          => (is_recent_cpu_update /\ load_avg' = thread_update_load_avg)]_vars
  /\ [][(is_mlfqs_priority_update /\ ~is_mlfqs_priority_update' /\ panic' = "")
          => /\ cur = mlfqs_thread /\ pc[cur] = "mlfqs_priority"
             /\ \A i \in 1..Len(all_list) :
                  LET t == all_list[i]
                  IN ~Excluded(t) => priority'[t] = mlfqs_priority(recent_cpu[t], nice[t])]_vars

\* C15 (progress): with -o mlfqs each flag, once raised, is eventually
\* clear again, unless the kernel stopped on a null dereference or the
\* MaxTicks timer interrupts of the run are used up while the housekeeping
\* thread still waits for one (blocked, to be woken by the next tick, or
\* ready behind a thread that only the next ticks preempt)
C15_FlagLeadsToRecompute ==
  LET no_tick_left == nticks = MaxTicks /\ ~sched.pending /\ cur # mlfqs_thread
  IN /\ (thread_mlfqs /\ is_recent_cpu_update)
          ~> (panic # "" \/ ~is_recent_cpu_update \/ no_tick_left)
     /\ (thread_mlfqs /\ is_mlfqs_priority_update)
          ~> (panic # "" \/ ~is_mlfqs_priority_update \/ no_tick_left)

C16_NoHigherReady ==
  (~thread_mlfqs /\ ~InCritical /\ intr_level = "ON"
     /\ pc[cur] \notin {"create_unblock", "create_check"}
     /\ \A t \in Tids : nice[t] = NICE_INIT)
    => \A t \in Tids : status[t] = "READY" => priority[t] <= priority[cur]

\* every holder on the chain that starts at lock l, at most depth levels
\* deep, has effective priority at least p
RECURSIVE ChainAtLeast(_, _, _)
ChainAtLeast(l, p, depth) ==
  IF depth = 0 \/ l = NULL \/ lock_holder[l] = NULL THEN TRUE
  ELSE /\ priority[lock_holder[l]] >= p
       /\ ChainAtLeast(wait_lock[lock_holder[l]], p, depth - 1)

\* C17: while a thread w is blocked in lock_acquire, every lock holder on
\* the chain from its wait lock, within DONATION_DEPTH levels, has effective
\* priority at least w's
C17_DonationChain ==
  \A w \in Tids :
    (panic = "" /\ status[w] = "BLOCKED" /\ wait_lock[w] # NULL)
      => ChainAtLeast(wait_lock[w], priority[w], DONATION_DEPTH)

\* the effective priority lock_release (l) gives the current thread: the
\* highest of its base priority and of the donors not waiting on l
release_priority(l) ==
  donated_priority(cur, SelectSeq(donors_list[cur], LAMBDA d : wait_lock[d] # l), priority)

\* C18: lock_release (l) drops exactly the donors that waited on l and sets
\* the holder's effective priority to the highest of its base priority and
\* the remaining donors'; so an uncontended lock_acquire (l) keeps the
\* caller's effective priority and leaves it where a lock_release (l) that
\* follows at once gives the same value back
C18_AcquireReleaseKeepsPriority ==
  /\ [][\A l \in Locks :
          lock_release(l) =>
            /\ donors_list'[cur] = SelectSeq(donors_list[cur], LAMBDA d : wait_lock[d] # l)
            /\ priority'[cur] = release_priority(l)]_vars
  /\ [][\A l \in Locks :
          (lock_acquire(l) /\ lock_holder[l] = NULL) =>
            /\ priority'[cur] = priority[cur]
            /\ release_priority(l) = priority[cur]]_vars

C20_ReadyInOwnBucket ==
  (thread_mlfqs /\ ~InCritical) =>
    \A t \in Tids \ {idle_thread} :
      status[t] = "READY" =>
        /\ Count(mlfqs_lists, t) = 1
        /\ last_bucket[t] = priority[t]
        /\ priority[t] \in PRI_MIN..PRI_MAX

\* PRI_MAX - recent_cpu / 4 - 2 * nice in 17.14 fixed point, cut to a whole
\* number toward zero and clamped
clamped_priority(rc, ni) ==
  LET fp == PRI_MAX * FP_F - CDiv(rc, 4) - 2 * ni * FP_F
      whole == IF fp >= 0 THEN fp \div FP_F ELSE -((-fp) \div FP_F)
  IN IF whole < PRI_MIN THEN PRI_MIN ELSE IF whole > PRI_MAX THEN PRI_MAX ELSE whole

\* C21: a recomputation of the priorities gives every thread of all_list but
\* the idle and the housekeeping thread the priority clamp (trunc (PRI_MAX -
\* recent_cpu / 4 - 2 * nice)): PRI_MAX for recent_cpu 0 and nice 0, 0 for
\* recent_cpu 4 * PRI_MAX and nice 0, and always a value in PRI_MIN..PRI_MAX
C21_PriorityFormula ==
  [][(MlfqsPriorities /\ is_mlfqs_priority_update /\ panic' = "") =>
       \A t \in Tids :
         (InSeq(all_list, t) /\ ~Excluded(t)) =>
           /\ priority'[t] = clamped_priority(recent_cpu[t], nice[t])
           /\ priority'[t] \in PRI_MIN..PRI_MAX
           /\ (recent_cpu[t] = 0 /\ nice[t] = 0) => priority'[t] = PRI_MAX
           /\ (recent_cpu[t] = 4 * PRI_MAX * FP_F /\ nice[t] = 0) => priority'[t] = 0]_vars

\* C21 witness: the housekeeping thread has recomputed main's priority from
\* recent_cpu 4 * PRI_MAX and nice 0 to 0
C21_Witness ==
  /\ pc[mlfqs_thread] = "mlfqs_block"
  /\ recent_cpu[MAIN] = 4 * PRI_MAX * FP_F /\ nice[MAIN] = 0
  /\ priority[MAIN] = 0


\* the threads that are READY or RUNNING, the idle and the housekeeping
\* thread aside
ready_count ==
  Cardinality({t \in Tids : status[t] \in {"READY", "RUNNING"}
                              /\ t # idle_thread /\ t # mlfqs_thread})

C22_IdleLoadConverges ==
  /\ [][load_avg' <= load_avg /\ load_avg' >= 0]_vars
  /\ <>[](load_avg = 0)
  /\ [][MlfqsBlock => cur' = idle_thread]_vars
  /\ [][(idle_tick /\ ticks' % TIMER_FREQ = 0)
          => (is_recent_cpu_update' /\ sched'.pending /\ cur' = mlfqs_thread)]_vars
  /\ is_recent_cpu_update ~> (cur = mlfqs_thread /\ pc[cur] = "mlfqs_recent_cpu")

\* C22 witness: TIMER_FREQ ticks after an earlier pass the housekeeping
\* thread has brought load_avg to 0, has blocked, and the idle thread has
\* halted again
C22_Witness ==
  /\ load_avg = 0
  /\ ticks >= 2 * TIMER_FREQ
  /\ ~sched.pending /\ cur = idle_thread /\ pc[cur] = "idle_hlt"
  /\ status[mlfqs_thread] = "BLOCKED"


\* C24: the dirty flags and all_list are only read-modified-written with
\* interrupts disabled: while the housekeeping thread is between its test of
\* is_recent_cpu_update (followed by thread_update_load_avg's traversal of
\* all_list) and thread_update_recent_cpu's clearing of the flag and
\* traversal, interrupts are off, so that no timer tick can come in between
C24_MutationsWithInterruptsOff ==
  (panic = "" /\ ~sched.pending /\ cur = mlfqs_thread /\ pc[cur] = "mlfqs_recent_cpu")
    => intr_level = "OFF"


\* C25: once the idle thread has recorded itself it is in neither ready_list
\* nor a bucket, it is never left READY by a yield, and schedule () picks it
\* only when the ready structure is empty
C25_IdleNeverQueued ==
  (idle_thread # NULL /\ panic = "") =>
    /\ Membership(idle_thread) = 0
    /\ ~sched.pending => status[idle_thread] # "READY"
    /\ (sched.pending /\ cur = idle_thread) => sched.from_empty


C27_ExitWaitProtocol ==
  /\ [][\A s \in ExitStatuses : SYSCALL_exit_handler(s) =>
          LET c == cur
              p == parent[cur]
          IN /\ panic' = ""
             /\ exit_status'[c] = s
             /\ status'[c] # "DYING"
             /\ has_child(process_children'[p], c)
             /\ child_of(process_children'[p], c) =
                  [tid |-> c, exit_status |-> s, did_execute |-> TRUE]
             /\ sema_value'[child_process_lock(p)] =
                  sema_value[child_process_lock(p)] + (IF tid_wait[p] = c THEN 1 ELSE 0)]_vars
  /\ [][\A p \in Tids :
          (pc[p] = "sema_wait_child" /\ status[p] = "BLOCKED" /\ status'[p] # "BLOCKED")
            => (cur = tid_wait[p] /\ pc'[cur] = "exit_thread")]_vars
  /\ [][(pc[cur] = "sema_wait_child" /\ pc'[cur] = "run")
          => wait_status'[cur] = exit_status[tid_wait[cur]]]_vars

\* C28: every thread whose mlfqselem thread_update_priority removes (the
\* READY threads of all_list in thread_update_priorities, the caller in
\* thread_set_nice if it were READY) is linked in exactly one bucket then
C28_RemovedLinkIsInBucket ==
  /\ [][(MlfqsPriorities /\ is_mlfqs_priority_update /\ panic' = "") =>
          \A t \in Tids :
            (InSeq(all_list, t) /\ status[t] = "READY") => Count(mlfqs_lists, t) = 1]_vars
  /\ [][\A n \in SetNices :
          (thread_set_nice(n) /\ status[cur] = "READY") => Count(mlfqs_lists, cur) = 1]_vars

\* C29: when SYSCALL_exit_handler follows thread_current ()->parent, the
\* parent's page has not been freed
C29_ParentLiveAtExit ==
  [][\A s \in ExitStatuses : SYSCALL_exit_handler(s) => ~ParentFreed(cur)]_vars

=============================================================================
